---- MODULE Spec2Model ----
(***************************************************************************)
(* Build-and-deploy controller (src/manager/main.py).                      *)
(*                                                                         *)
(* Spec       : the watch loop of watch_gcs_bucket driving                 *)
(*              process_new_tarball, with the cluster's build jobs, the    *)
(*              ledger file and controller restarts as environment.        *)
(* SpecFair   : Spec with the controller process kept running.             *)
(* SpecDeploy : deploy_application called directly with its four           *)
(*              parameters against a cluster resource store.               *)
(* SpecInspect: find_dockerfile_path applied to the archives of a bounded  *)
(*              set.                                                       *)
(* SpecName   : the resource name of deploy_application derived for two    *)
(*              descriptors of a bounded set.                              *)
(* SpecUpload : upload_to_gcs of src/manager/upload.py storing archives in *)
(*              the bucket the controller watches.                         *)
(***************************************************************************)
EXTENDS Integers, Sequences, FiniteSets, TLC

VARIABLES
    bucket,           \* storage: the names of the objects it holds
    ledger_file,      \* processed_files.log: the sequence of its lines
    processed_files,  \* the set local to watch_gcs_bucket
    loaded,           \* what load_processed_files returned at the last start
    pc,               \* controller position
    todo,             \* blobs the running `for blob in blobs` has not reached
    cur,              \* blob handed to process_new_tarball
    ctx,              \* context_sub_path
    curJob,           \* index in jobs of job_name, 0 when none
    jobs,             \* build jobs created in the cluster, in creation order
    run,              \* per key: what the latest pipeline run for it did
    returned,         \* keys for which process_new_tarball returned normally
    skipped,          \* keys the ledger filter skipped since the last start
    faults,           \* injected infrastructure errors so far
    restarts,         \* controller restarts so far
    cluster,          \* resource store: <<kind, name>> -> stored resource
    dpc,              \* deploy_application position
    dkind,            \* resource the reconciler is working on
    dargs,            \* arguments of the running / last reconciler call
    dres,             \* how the last reconciler call ended
    oplog,            \* cluster API calls of the running / last reconciler call
    calls,            \* reconciler calls started so far
    prev,             \* the call before: its arguments, its end state
    snap,             \* resource store when the last call ended
    quiet,            \* no fault, no foreign write since the last call began
    dfaults,          \* injected cluster faults and foreign writes so far
    tar_members,      \* tar.getmembers() of the archive given to the inspector
    context_path,     \* what find_dockerfile_path returned for it
    descriptors,      \* two (app_name, app_version) pairs given to the naming
    resource_names    \* the resource names derived for the two

pvars ==
    <<bucket, ledger_file, processed_files, loaded, pc, todo, cur, ctx, curJob,
      jobs, run, returned, skipped, faults, restarts>>

dvars ==
    <<cluster, dpc, dkind, dargs, dres, oplog, calls, prev, snap, quiet, dfaults>>

ivars ==
    <<tar_members, context_path>>

nvars ==
    <<descriptors, resource_names>>

vars ==
    <<bucket, ledger_file, processed_files, loaded, pc, todo, cur, ctx, curJob,
      jobs, run, returned, skipped, faults, restarts,
      cluster, dpc, dkind, dargs, dres, oplog, calls, prev, snap, quiet, dfaults,
      tar_members, context_path, descriptors, resource_names>>

----------------------------------------------------------------------------
(* Bounds *)

\* Infrastructure errors and controller restarts injected in one behaviour.
MaxDisturbances == 1

\* Members of an archive given to the inspector.
MaxMembers == 3

\* Characters of an app name or an app version given to the naming.
MaxFieldLen == 3

\* Calls of deploy_application in one behaviour.
MaxCalls == 3

\* Cluster API errors and foreign deletions injected in one behaviour.
MaxDFaults == 1

----------------------------------------------------------------------------
(* Sequences *)

Range(s) ==
    {s[i] : i \in 1..Len(s)}

Count(s, x) ==
    Cardinality({i \in 1..Len(s) : s[i] = x})

----------------------------------------------------------------------------
(* Object names.  A name is the sequence of its pieces: "/" separators,    *)
(* the ".tar.gz" suffix, blanks and plain words, so that prefix, suffix,   *)
(* basename, replace, lower and strip act on it as on the string.          *)

None == "None"

NoBlob == <<>>

K_app1 == <<"uploads", "/", "app1", ".tar.gz">>

K_app2 == <<"uploads", "/", "proj", "/", "App2", ".tar.gz">>

K_bad == <<"uploads", "/", "bad", ".tar.gz">>

K_notes == <<"uploads", "/", "notes", ".txt">>

K_out == <<"unassigned", "/", "app3", ".tar.gz">>

\* Objects of the bucket in the order the listing returns them (by name).
AllBlobs ==
    <<K_out, K_app1, K_bad, K_notes, K_app2>>

Keys ==
    Range(AllBlobs)

ListPrefix ==
    <<"uploads", "/">>

startswith(name, p) ==
    /\ Len(name) >= Len(p)
    /\ SubSeq(name, 1, Len(p)) = p

endswith_tar_gz(name) ==
    /\ Len(name) >= 1
    /\ name[Len(name)] = ".tar.gz"

\* The objects the watcher can hand to process_new_tarball: those under
\* the listing prefix whose name ends in '.tar.gz'.
Candidates ==
    {k \in Keys : startswith(k, ListPrefix) /\ endswith_tar_gz(k)}

RECURSIVE basename(_)
basename(name) ==
    IF name = <<>> THEN <<>>
    ELSE IF \E i \in 1..Len(name) : name[i] = "/" THEN basename(Tail(name))
    ELSE name

lower(w) ==
    CASE w = "App2" -> "app2"
      [] w = "Dockerfile" -> "dockerfile"
      [] w = "DOCKERFILE" -> "dockerfile"
      [] OTHER -> w

app_name_of(name) ==
    LET base == basename(name)
        cut == SelectSeq(base, LAMBDA w : w # ".tar.gz")
    IN  [i \in 1..Len(cut) |-> lower(cut[i])]

RECURSIVE lstrip(_)
lstrip(line) ==
    IF line # <<>> /\ Head(line) = " " THEN lstrip(Tail(line)) ELSE line

RECURSIVE rstrip(_)
rstrip(line) ==
    IF line # <<>> /\ line[Len(line)] = " "
    THEN rstrip(SubSeq(line, 1, Len(line) - 1))
    ELSE line

strip(line) ==
    rstrip(lstrip(line))

----------------------------------------------------------------------------
(* Archives.  A member name is the sequence of its "/"-separated pieces:   *)
(* "./Dockerfile" is <<".", "Dockerfile">>, "/Dockerfile" is               *)
(* <<"", "Dockerfile">>.                                                   *)

Member(n, f) ==
    [name |-> n, isfile |-> f]

A_root ==
    <<Member(<<".">>, FALSE), Member(<<".", "Dockerfile">>, TRUE),
      Member(<<".", "app.py">>, TRUE)>>

A_sub ==
    <<Member(<<"svc">>, FALSE), Member(<<"svc", "main.py">>, TRUE),
      Member(<<"svc", "Dockerfile">>, TRUE)>>

A_none ==
    <<Member(<<"README">>, TRUE), Member(<<"Dockerfile">>, FALSE),
      Member(<<"deep", "er", "Dockerfile">>, TRUE)>>

\* The members tar.getmembers() returns for each stored object.
archive_of(name) ==
    CASE name = K_app1 -> A_root
      [] name = K_app2 -> A_sub
      [] name = K_out -> A_root
      [] OTHER -> A_none

RECURSIVE norm_parts(_, _, _)
norm_parts(parts, stack, abs) ==
    IF parts = <<>> THEN stack
    ELSE LET c == Head(parts)
             rest == Tail(parts)
         IN  IF c = "" \/ c = "." THEN norm_parts(rest, stack, abs)
             ELSE IF c = ".."
             THEN IF stack # <<>> /\ stack[Len(stack)] # ".."
                  THEN norm_parts(rest, SubSeq(stack, 1, Len(stack) - 1), abs)
                  ELSE IF abs THEN norm_parts(rest, stack, abs)
                  ELSE norm_parts(rest, Append(stack, ".."), abs)
             ELSE norm_parts(rest, Append(stack, c), abs)

\* os.path.normpath(name).split(os.sep)
normpath_split(name) ==
    LET abs == Len(name) >= 2 /\ Head(name) = ""
        st == norm_parts(name, <<>>, abs)
    IN  IF abs THEN (IF st = <<>> THEN <<"", "">> ELSE <<"">> \o st)
        ELSE IF st = <<>> THEN <<".">>
        ELSE st

\* Faulty variant: the root member's name is compared in lower case.
root_dockerfile_nocase(members) ==
    \E i \in 1..Len(members) :
        /\ Len(members[i].name) \in {1, 2}
        /\ Len(members[i].name) = 2 => members[i].name[1] = "."
        /\ lower(members[i].name[Len(members[i].name)]) = "dockerfile"
        /\ members[i].isfile

root_dockerfile(members) ==
    \E i \in 1..Len(members) :
        /\ members[i].name = <<"Dockerfile">> \/ members[i].name = <<".", "Dockerfile">>
        /\ members[i].isfile

in_subdirectory(m) ==
    LET path_parts == normpath_split(m.name)
    IN  /\ Len(path_parts) = 2
        /\ path_parts[2] = "Dockerfile"
        /\ m.isfile

\* Faulty variant: the first member found at the root or one level down
\* decides, in the order of the archive.
find_first_listed(members) ==
    LET hit(m) == \/ (m.name = <<"Dockerfile">> \/ m.name = <<".", "Dockerfile">>) /\ m.isfile
                  \/ in_subdirectory(m)
    IN  IF \E i \in 1..Len(members) : hit(members[i])
        THEN LET i == CHOOSE i \in 1..Len(members) :
                          /\ hit(members[i])
                          /\ \A j \in 1..(i - 1) : ~hit(members[j])
             IN  IF in_subdirectory(members[i])
                 THEN normpath_split(members[i].name)[1] ELSE "."
        ELSE None

\* The value find_dockerfile_path returns for a readable archive.
find_dockerfile_path(members) ==
    IF root_dockerfile(members) THEN "."
    ELSE IF \E i \in 1..Len(members) : in_subdirectory(members[i])
    THEN LET i == CHOOSE i \in 1..Len(members) :
                      /\ in_subdirectory(members[i])
                      /\ \A j \in 1..(i - 1) : ~in_subdirectory(members[j])
         IN  normpath_split(members[i].name)[1]
    ELSE None

\* `not context_sub_path`
falsy(v) ==
    v = None \/ v = ""

----------------------------------------------------------------------------
(* The ledger *)

\* Faulty variant: the ledger file is not read at start.
load_nothing ==
    {}

load_processed_files ==
    {strip(ledger_file[i]) : i \in 1..Len(ledger_file)}

\* Faulty variant: the line is appended twice.
save_twice(filename) ==
    Append(Append(ledger_file, filename), filename)

save_processed_file(filename) ==
    Append(ledger_file, filename)

LedgerKeys ==
    Range(ledger_file)

----------------------------------------------------------------------------
(* Build jobs of the cluster *)

BackoffLimit == 1

\* wait: how watch_build_job ended for the job; nf: the 'not found' answers
\* it got.
Job(key, app, sub, vis) ==
    [key |-> key, app |-> app, sub |-> sub, succeeded |-> 0, failed |-> 0,
     vis |-> vis, wait |-> "pending", nf |-> 0]

\* The Job controller has stopped working on the job.
Terminal(j) ==
    j.succeeded >= 1 \/ j.failed > BackoffLimit

NonTerminalJobs ==
    {i \in 1..Len(jobs) : ~Terminal(jobs[i])}

RunInit ==
    [ctx |-> "unset", job |-> 0, deployCalled |-> FALSE, reconciled |-> FALSE,
     hit |-> "none"]

PipelineInit ==
    /\ bucket = Keys
    /\ ledger_file = <<>>
    /\ processed_files = {}
    /\ loaded = {}
    /\ pc = "start"
    /\ todo = <<>>
    /\ cur = NoBlob
    /\ ctx = None
    /\ curJob = 0
    /\ jobs = <<>>
    /\ run = [k \in Candidates |-> RunInit]
    /\ returned = {}
    /\ skipped = {}
    /\ faults = 0
    /\ restarts = 0

Fault ==
    /\ faults + restarts < MaxDisturbances
    /\ faults' = faults + 1

NoFault ==
    faults' = faults

----------------------------------------------------------------------------
(* main *)

\* How the process ends when a step of its start fails: main returns when
\* a required setting is missing (lines 403-405) or a client could not be
\* made (410-412); the exception setup_cluster_issuer re-raises (461-463)
\* and the one of load_processed_files (line 128, before the try of line
\* 132) leave main uncaught.
startup_end(step) ==
    CASE step = "settings" -> "exit_config"
      [] step = "clients" -> "exit_clients"
      [] step = "issuer" -> "crashed_issuer"
      [] OTHER -> "crashed_ledger"

\* The positions in which the process has ended.
Terminated ==
    {"exit_config", "exit_clients", "crashed_issuer", "crashed_ledger"}

\* main, lines 401-415, up to the first turn of the watch loop: the
\* settings, the clients, the cluster issuer, then the ledger is loaded.
main ==
    /\ pc = "start"
    /\ \/ /\ NoFault
          /\ pc' = startup_end("settings")
          /\ UNCHANGED <<processed_files, loaded>>
       \/ /\ Fault
          /\ \E step \in {"clients", "issuer", "ledger"} : pc' = startup_end(step)
          /\ UNCHANGED <<processed_files, loaded>>
       \/ /\ NoFault
          /\ processed_files' = load_processed_files
          /\ loaded' = load_processed_files
          /\ pc' = "list"
    /\ UNCHANGED <<bucket, ledger_file, todo, cur, ctx, curJob, jobs, run,
                   returned, skipped, restarts>>
    /\ UNCHANGED <<dvars, ivars, nvars>>

----------------------------------------------------------------------------
(* watch_gcs_bucket *)

\* Faulty variant: the handler of line 139 logs and re-raises.
on_poll_exception_reraise ==
    "crashed_loop"

\* Where an exception raised inside the try of line 132 takes the loop:
\* the handler of lines 139-141 and its sleep.
on_poll_exception ==
    "backoff"

\* Faulty variant: a name of fewer than three path segments is passed over.
is_new_three_segments(name, seen) ==
    /\ endswith_tar_gz(name)
    /\ name \notin seen
    /\ Cardinality({i \in 1..Len(name) : name[i] = "/"}) >= 2

\* The condition of line 135 under which a listed blob is processed.
is_new(name, seen) ==
    endswith_tar_gz(name) /\ name \notin seen

\* Faulty variant: only the objects directly under the prefix are listed.
listing_top_level ==
    SelectSeq(AllBlobs, LAMBDA n : /\ n \in bucket
                                   /\ startswith(n, ListPrefix)
                                   /\ \A i \in (Len(ListPrefix) + 1)..Len(n) : n[i] # "/")

listing ==
    SelectSeq(AllBlobs, LAMBDA n : n \in bucket /\ startswith(n, ListPrefix))

\* list_blobs, line 133: the listing, or an error that the handler of
\* line 139 turns into the longer sleep.
watch_list ==
    /\ pc = "list"
    /\ \/ /\ NoFault
          /\ todo' = listing
          /\ pc' = "iter"
       \/ /\ Fault
          /\ todo' = <<>>
          /\ pc' = on_poll_exception
    /\ UNCHANGED <<bucket, ledger_file, processed_files, loaded, cur, ctx, curJob,
                   jobs, run, returned, skipped, restarts>>
    /\ UNCHANGED <<dvars, ivars, nvars>>

\* One turn of `for blob in blobs`, lines 134-137, up to the call.
watch_iter ==
    /\ pc = "iter"
    /\ todo # <<>>
    /\ LET blob == Head(todo)
       IN  /\ todo' = Tail(todo)
           /\ IF is_new(blob, processed_files)
              THEN /\ cur' = blob
                   /\ pc' = "find"
                   /\ run' = [run EXCEPT ![blob] = RunInit]
                   /\ skipped' = skipped
              ELSE /\ cur' = NoBlob
                   /\ pc' = "iter"
                   /\ run' = run
                   /\ skipped' = IF endswith_tar_gz(blob)
                                 THEN skipped \cup {blob} ELSE skipped
    /\ ctx' = None
    /\ curJob' = 0
    /\ UNCHANGED <<bucket, ledger_file, processed_files, loaded, jobs, returned,
                   faults, restarts>>
    /\ UNCHANGED <<dvars, ivars, nvars>>

\* Line 39.
POLL_INTERVAL_SECONDS == 30

\* Faulty variant: the handler of line 139 sleeps the normal interval.
sleep_seconds_flat(p) ==
    IF p \in {"sleep", "backoff"} THEN POLL_INTERVAL_SECONDS ELSE 0

\* The argument of the time.sleep the loop is in: line 138 after a listing
\* that was worked through, line 141 in the handler of line 139.
sleep_seconds(p) ==
    CASE p = "sleep" -> POLL_INTERVAL_SECONDS
      [] p = "backoff" -> POLL_INTERVAL_SECONDS * 2
      [] OTHER -> 0

\* The listing is exhausted: time.sleep(POLL_INTERVAL_SECONDS), line 138.
watch_sleep ==
    /\ pc = "iter"
    /\ todo = <<>>
    /\ pc' = "sleep"
    /\ UNCHANGED <<bucket, ledger_file, processed_files, loaded, todo, cur, ctx,
                   curJob, jobs, run, returned, skipped, faults, restarts>>
    /\ UNCHANGED <<dvars, ivars, nvars>>

\* The sleep of line 138 or of line 141 is over: next turn of `while True`.
watch_wake ==
    /\ pc \in {"sleep", "backoff"}
    /\ pc' = "list"
    /\ UNCHANGED <<bucket, ledger_file, processed_files, loaded, todo, cur, ctx,
                   curJob, jobs, run, returned, skipped, faults, restarts>>
    /\ UNCHANGED <<dvars, ivars, nvars>>

----------------------------------------------------------------------------
(* process_new_tarball *)

\* Faulty variant: the test of line 152 is missing.
after_find_always_build(c) ==
    "create"

\* Lines 152-156: without a build context the archive is recorded and the
\* pipeline returns; with one it goes on to the build.
after_find(c) ==
    IF falsy(c) THEN "save_validation" ELSE "create"

\* Lines 151-156: find_dockerfile_path, whose handlers (lines 119-124) turn
\* a failed download into None, then the test of line 152.
pnt_find ==
    /\ pc = "find"
    /\ \/ /\ NoFault
          /\ ctx' = find_dockerfile_path(archive_of(cur))
          /\ run' = [run EXCEPT ![cur].ctx = ctx']
       \/ /\ Fault
          /\ ctx' = None
          /\ run' = [run EXCEPT ![cur].ctx = None, ![cur].hit = "download"]
    /\ pc' = after_find(ctx')
    /\ UNCHANGED <<bucket, ledger_file, processed_files, loaded, todo, cur, curJob,
                   jobs, returned, skipped, restarts>>
    /\ UNCHANGED <<dvars, ivars, nvars>>

\* Faulty variant: an error of save_processed_file is swallowed and the
\* pipeline goes on to processed_files.add.
after_save_error_swallowed(p) ==
    "add"

\* Where control goes when save_processed_file raises at position p: from
\* the try body to the handler of line 180, from the handler out of
\* process_new_tarball to the handler of line 139.
after_save_error(p) ==
    IF p = "save_exception" THEN on_poll_exception ELSE "save_exception"

\* Faulty variant: the handler of line 180 only logs.
records_unless_exception(p) ==
    p \in {"save_validation", "save_success", "save_failure"}

\* The outcomes after which process_new_tarball calls save_processed_file:
\* validation failure (154), success (172), build failure (177) and any
\* exception (182).
records(p) ==
    p \in {"save_validation", "save_success", "save_failure", "save_exception"}

\* save_processed_file(blob.name) at lines 154, 172, 177 and 182.
pnt_save ==
    /\ pc \in {"save_validation", "save_success", "save_failure", "save_exception"}
    /\ \/ /\ NoFault
          /\ ledger_file' = IF records(pc) THEN save_processed_file(cur)
                            ELSE ledger_file
          /\ pc' = "add"
          /\ UNCHANGED <<cur, todo>>
       \/ /\ Fault
          /\ ledger_file' = ledger_file
          /\ pc' = after_save_error(pc)
          /\ cur' = IF pc' = "save_exception" THEN cur ELSE NoBlob
          /\ todo' = IF pc' = "save_exception" THEN todo ELSE <<>>
    /\ UNCHANGED <<bucket, processed_files, loaded, ctx, curJob, jobs, run,
                   returned, skipped, restarts>>
    /\ UNCHANGED <<dvars, ivars, nvars>>

\* processed_files.add(blob.name) at lines 155, 178 and 183, and the return.
pnt_add ==
    /\ pc = "add"
    /\ processed_files' = processed_files \cup {cur}
    /\ returned' = returned \cup {cur}
    /\ cur' = NoBlob
    /\ pc' = "iter"
    /\ UNCHANGED <<bucket, ledger_file, loaded, todo, ctx, curJob, jobs, run,
                   skipped, faults, restarts>>
    /\ UNCHANGED <<dvars, ivars, nvars>>

\* create_kaniko_job, lines 159-163 and 196-253: the job is created from the
\* blob's URI, the app label and the context sub-path, or the API call raises.
create_kaniko_job ==
    /\ pc = "create"
    /\ \/ /\ NoFault
          /\ jobs' = Append(jobs, Job(cur, app_name_of(cur), ctx, "visible"))
          /\ curJob' = Len(jobs) + 1
          /\ pc' = "watch"
          /\ run' = [run EXCEPT ![cur].job = Len(jobs) + 1]
       \/ /\ Fault
          /\ jobs' = Append(jobs, Job(cur, app_name_of(cur), ctx, "lagging"))
          /\ curJob' = Len(jobs) + 1
          /\ pc' = "watch"
          /\ run' = [run EXCEPT ![cur].job = Len(jobs) + 1]
       \/ /\ Fault
          /\ jobs' = jobs
          /\ curJob' = 0
          /\ pc' = "save_exception"
          /\ run' = [run EXCEPT ![cur].hit = "create"]
    /\ UNCHANGED <<bucket, ledger_file, processed_files, loaded, todo, cur, ctx,
                   returned, skipped, restarts>>
    /\ UNCHANGED <<dvars, ivars, nvars>>

----------------------------------------------------------------------------
(* watch_build_job *)

\* Faulty variant: any finished pod counts as a successful build.
status_verdict_any_pod(j) ==
    IF j.succeeded >= 1 \/ j.failed >= 1 THEN "succeeded" ELSE "poll"

\* Faulty variant: a job not yet succeeded is taken as failed instead of polled again.
status_verdict_no_poll(j) ==
    IF j.succeeded >= 1 THEN "succeeded" ELSE "failed"

\* Faulty variant: status.failed is looked at before status.succeeded.
status_verdict_failed_first(j) ==
    IF j.failed >= 1 THEN "failed"
    ELSE IF j.succeeded >= 1 THEN "succeeded"
    ELSE "poll"

\* Lines 261-266: what one successful status read makes the wait do.
status_verdict(j) ==
    IF j.succeeded >= 1 THEN "succeeded"
    ELSE IF j.failed >= 1 THEN "failed"
    ELSE "poll"

\* Faulty variant: 'not found' is retried twice before it fails the wait.
not_found_grace(n) ==
    IF n < 3 THEN "retry" ELSE "failed"

\* Lines 267-272: what the n-th 'not found' answer makes the wait do.
not_found_verdict(n) ==
    "failed"

\* One turn of `while True`, lines 259-272.
watch_build_job ==
    /\ pc = "watch"
    /\ LET j == jobs[curJob]
       IN  \/ /\ Fault
              /\ jobs' = [jobs EXCEPT ![curJob].wait = "apierror"]
              /\ run' = [run EXCEPT ![cur].hit = "status"]
              /\ pc' = "save_failure"
           \/ /\ NoFault
              /\ j.vis # "visible"
              /\ IF not_found_verdict(j.nf + 1) = "failed"
                 THEN /\ jobs' = [jobs EXCEPT ![curJob].wait = "notfound",
                                              ![curJob].nf = @ + 1]
                      /\ run' = [run EXCEPT ![cur].hit = "status"]
                      /\ pc' = "save_failure"
                 ELSE /\ jobs' = [jobs EXCEPT ![curJob].nf = @ + 1]
                      /\ run' = run
                      /\ pc' = "watch_sleep"
           \/ /\ NoFault
              /\ j.vis = "visible"
              /\ run' = run
              /\ LET v == status_verdict(j)
                 IN  CASE v = "succeeded" ->
                            /\ jobs' = [jobs EXCEPT ![curJob].wait = "succeeded"]
                            /\ pc' = "deploy"
                       [] v = "failed" ->
                            /\ jobs' = [jobs EXCEPT ![curJob].wait = "failed"]
                            /\ pc' = "save_failure"
                       [] OTHER ->
                            /\ jobs' = jobs
                            /\ pc' = "watch_sleep"
    /\ UNCHANGED <<bucket, ledger_file, processed_files, loaded, todo, cur, ctx,
                   curJob, returned, skipped, restarts>>
    /\ UNCHANGED <<dvars, ivars, nvars>>

\* time.sleep(15), line 273.
watch_build_sleep ==
    /\ pc = "watch_sleep"
    /\ pc' = "watch"
    /\ UNCHANGED <<bucket, ledger_file, processed_files, loaded, todo, cur, ctx,
                   curJob, jobs, run, returned, skipped, faults, restarts>>
    /\ UNCHANGED <<dvars, ivars, nvars>>

----------------------------------------------------------------------------
(* The call of line 171 *)

\* The positional arguments process_new_tarball passes at line 171.
deploy_call_args ==
    <<"k8s_clients", "app_name", "destination_image">>

\* The parameters deploy_application declares at line 299, none with a default.
deploy_application_params ==
    <<"k8s_clients", "app_name", "app_version", "image_name">>

\* A call binds when every parameter gets an argument; otherwise Python
\* raises TypeError before the body runs.
call_binds ==
    Len(deploy_call_args) = Len(deploy_application_params)

\* Lines 169-171: the call, whose TypeError the handler of line 180 catches.
pnt_deploy ==
    /\ pc = "deploy"
    /\ run' = [run EXCEPT ![cur].deployCalled = TRUE, ![cur].reconciled = call_binds]
    /\ pc' = IF call_binds THEN "save_success" ELSE "save_exception"
    /\ UNCHANGED <<bucket, ledger_file, processed_files, loaded, todo, cur, ctx,
                   curJob, jobs, returned, skipped, faults, restarts>>
    /\ UNCHANGED <<dvars, ivars, nvars>>

----------------------------------------------------------------------------
(* Environment of the pipeline *)

\* A pod of the job completes: status.succeeded becomes 1.
pod_succeeds ==
    /\ \E i \in NonTerminalJobs :
          jobs' = [jobs EXCEPT ![i].succeeded = 1]
    /\ UNCHANGED <<bucket, ledger_file, processed_files, loaded, pc, todo, cur, ctx,
                   curJob, run, returned, skipped, faults, restarts>>
    /\ UNCHANGED <<dvars, ivars, nvars>>

\* A pod of the job fails: status.failed counts it; the Job controller
\* starts another pod while the count is within backoff_limit (line 248).
pod_fails ==
    /\ \E i \in NonTerminalJobs :
          jobs' = [jobs EXCEPT ![i].failed = @ + 1]
    /\ UNCHANGED <<bucket, ledger_file, processed_files, loaded, pc, todo, cur, ctx,
                   curJob, run, returned, skipped, faults, restarts>>
    /\ UNCHANGED <<dvars, ivars, nvars>>

\* The read API catches up with the job's creation.
job_appears ==
    /\ \E i \in 1..Len(jobs) :
          /\ jobs[i].vis = "lagging"
          /\ jobs' = [jobs EXCEPT ![i].vis = "visible"]
    /\ UNCHANGED <<bucket, ledger_file, processed_files, loaded, pc, todo, cur, ctx,
                   curJob, run, returned, skipped, faults, restarts>>
    /\ UNCHANGED <<dvars, ivars, nvars>>

\* The controller process is stopped and started again, and the new
\* process reaches its watch loop: main runs watch_gcs_bucket, which
\* reloads the ledger (lines 128-131).  A build job in flight stays in the
\* cluster.
restart ==
    /\ faults + restarts < MaxDisturbances
    /\ restarts' = restarts + 1
    /\ processed_files' = load_processed_files
    /\ loaded' = load_processed_files
    /\ pc' = "list"
    /\ todo' = <<>>
    /\ cur' = NoBlob
    /\ ctx' = None
    /\ curJob' = 0
    /\ skipped' = {}
    /\ jobs' = [i \in 1..Len(jobs) |->
                  IF jobs[i].wait = "pending"
                  THEN [jobs[i] EXCEPT !.wait = "abandoned"] ELSE jobs[i]]
    /\ UNCHANGED <<bucket, ledger_file, run, returned, faults>>
    /\ UNCHANGED <<dvars, ivars, nvars>>

----------------------------------------------------------------------------
(* deploy_application: names and manifests *)

Apps ==
    {<<"app1">>}

Versions ==
    {<<"v1">>, <<"v2">>}

Images ==
    {"img1", "img2"}

\* DOMAIN_NAME of the environment at the time of the call; "" when unset.
Domains ==
    {"", "example.com"}

\* f"{app_name}-{app_version}", line 303.
resource_name(app, ver) ==
    app \o <<"-">> \o ver

\* f"{app_name}-{app_version}-ingress", line 374.
ingress_name(app, ver) ==
    app \o <<"-">> \o ver \o <<"-", "ingress">>

\* The name each API call of lines 315-325, 345-350 and 376-386 addresses.
name_of(kind, a) ==
    IF kind = "ingress" THEN ingress_name(a.app, a.ver)
    ELSE resource_name(a.app, a.ver)

\* templates/deployment.yaml, service.yaml and ingress.yaml after the
\* replacements of lines 309-311, 340-341 and 369-371: the rendered body,
\* named as the reads and patches address it.
manifest(kind, a) ==
    CASE kind = "deployment" ->
           [name |-> resource_name(a.app, a.ver), app |-> a.app, version |-> a.ver,
            image |-> a.img]
      [] kind = "service" ->
           [name |-> resource_name(a.app, a.ver), app |-> a.app, version |-> a.ver]
      [] OTHER ->
           [name |-> ingress_name(a.app, a.ver), app |-> a.app, version |-> a.ver,
            host |-> a.domain]

----------------------------------------------------------------------------
(* The cluster API the reconciler calls *)

Exists(id) ==
    id \in DOMAIN cluster

\* create_namespaced_*: stores the body under its own name.
api_create(kind, body) ==
    (<<kind, body.name>> :> [body |-> body, gen |-> 1]) @@ cluster

\* patch_namespaced_*: the body's fields replace the stored ones; the
\* generation moves only when something changed.
api_patch(id, body) ==
    [cluster EXCEPT ![id] = [body |-> body,
                             gen |-> IF @.body = body THEN @.gen ELSE @.gen + 1]]

api_delete(id) ==
    [r \in (DOMAIN cluster) \ {id} |-> cluster[r]]

----------------------------------------------------------------------------
(* deploy_application *)

DeployInit ==
    /\ cluster = <<>>
    /\ dpc = "idle"
    /\ dkind = "none"
    /\ dargs = None
    /\ dres = "none"
    /\ oplog = <<>>
    /\ calls = 0
    /\ prev = None
    /\ snap = <<>>
    /\ quiet = TRUE
    /\ dfaults = 0

DFault ==
    /\ dfaults < MaxDFaults
    /\ dfaults' = dfaults + 1
    /\ quiet' = FALSE

NoDFault ==
    /\ dfaults' = dfaults
    /\ quiet' = quiet

Op(kind, op, res) ==
    [kind |-> kind, op |-> op, res |-> res]

\* Faulty variant: a service that was found is created again.
on_found_recreate(kind) ==
    IF kind = "service" THEN "create" ELSE "patch"

\* Faulty variant: a service that was found is patched like the others.
on_found_patch_all(kind) ==
    "patch"

\* What follows a read that found the resource: the patch of lines 317 and
\* 378; for the service nothing (line 346).
on_found(kind) ==
    IF kind = "service" THEN "next" ELSE "patch"

\* Faulty variant: the handlers do not look at the status.
any_error_creates(status) ==
    "create"

\* The handlers of lines 322-329, 347-355 and 383-390.
on_api_exception(status) ==
    IF status = "404" THEN "create" ELSE "raise"

\* The try block of the resource's read: with the patch for the deployment
\* (lines 314-321) and the ingress (375-382), the read alone for the
\* service (344-346).
patch_in_try(kind) ==
    kind \in {"deployment", "ingress"}

\* Faulty variant: the ingress block comes before the service block.
next_kind_route_first(kind, a) ==
    CASE kind = "deployment" -> IF a.domain = "" THEN "service" ELSE "ingress"
      [] kind = "ingress" -> "service"
      [] OTHER -> "none"

\* The block after the one of `kind`: Deployment, Service, then Ingress
\* unless DOMAIN_NAME is unset (lines 362-365).
next_kind(kind, a) ==
    CASE kind = "deployment" -> "service"
      [] kind = "service" -> IF a.domain = "" THEN "none" ELSE "ingress"
      [] OTHER -> "none"

\* The resource's block is done: on to the next one, or return.
Proceed(kind, cl) ==
    LET nk == next_kind(kind, dargs)
    IN  /\ dkind' = nk
        /\ dpc' = IF nk = "none" THEN "done" ELSE "read"
        /\ dres' = IF nk = "none" THEN "ok" ELSE dres
        /\ snap' = IF nk = "none" THEN cl ELSE snap

\* `raise` of lines 329/334, 355/358 and 390/395.
Raise(cl) ==
    /\ dpc' = "raised"
    /\ dres' = "error"
    /\ snap' = cl
    /\ dkind' = dkind

\* What an ApiException with `status` leads to in the handler.
Handle(status, cl) ==
    IF on_api_exception(status) = "create"
    THEN /\ dpc' = "create"
         /\ UNCHANGED <<dkind, dres, snap>>
    ELSE Raise(cl)

\* A call with all four parameters bound, lines 299-303.
deploy_application ==
    /\ dpc \in {"idle", "done", "raised"}
    /\ calls < MaxCalls
    /\ \E app \in Apps, ver \in Versions, img \in Images, dom \in Domains :
          dargs' = [app |-> app, ver |-> ver, img |-> img, domain |-> dom]
    /\ prev' = [args |-> dargs, res |-> dres, snap |-> snap, quiet |-> quiet]
    /\ calls' = calls + 1
    /\ quiet' = TRUE
    /\ oplog' = <<>>
    /\ dpc' = "read"
    /\ dkind' = "deployment"
    /\ dres' = "running"
    /\ UNCHANGED <<cluster, snap, dfaults>>
    /\ UNCHANGED <<pvars, ivars, nvars>>

\* read_namespaced_deployment / _service / _ingress, lines 315, 345, 376.
deploy_read ==
    /\ dpc = "read"
    /\ LET id == <<dkind, name_of(dkind, dargs)>>
       IN  \/ /\ NoDFault
              /\ Exists(id)
              /\ oplog' = Append(oplog, Op(dkind, "read", "found"))
              /\ CASE on_found(dkind) = "patch" ->
                        /\ dpc' = "patch"
                        /\ UNCHANGED <<dkind, dres, snap>>
                   [] on_found(dkind) = "create" ->
                        /\ dpc' = "create"
                        /\ UNCHANGED <<dkind, dres, snap>>
                   [] OTHER -> Proceed(dkind, cluster)
           \/ /\ NoDFault
              /\ ~Exists(id)
              /\ oplog' = Append(oplog, Op(dkind, "read", "404"))
              /\ Handle("404", cluster)
           \/ /\ DFault
              /\ oplog' = Append(oplog, Op(dkind, "read", "500"))
              /\ Handle("500", cluster)
    /\ UNCHANGED <<cluster, dargs, calls, prev>>
    /\ UNCHANGED <<pvars, ivars, nvars>>

\* patch_namespaced_deployment / _ingress, lines 317-321 and 378-382.
deploy_patch ==
    /\ dpc = "patch"
    /\ LET id == <<dkind, name_of(dkind, dargs)>>
       IN  \/ /\ NoDFault
              /\ Exists(id)
              /\ cluster' = api_patch(id, manifest(dkind, dargs))
              /\ oplog' = Append(oplog, Op(dkind, "patch", "ok"))
              /\ Proceed(dkind, cluster')
           \/ /\ NoDFault
              /\ ~Exists(id)
              /\ cluster' = cluster
              /\ oplog' = Append(oplog, Op(dkind, "patch", "404"))
              /\ IF patch_in_try(dkind) THEN Handle("404", cluster)
                 ELSE Raise(cluster)
           \/ /\ DFault
              /\ cluster' = cluster
              /\ oplog' = Append(oplog, Op(dkind, "patch", "500"))
              /\ IF patch_in_try(dkind) THEN Handle("500", cluster)
                 ELSE Raise(cluster)
    /\ UNCHANGED <<dargs, calls, prev>>
    /\ UNCHANGED <<pvars, ivars, nvars>>

\* create_namespaced_deployment / _service / _ingress in the handler, lines
\* 325-327, 350-352 and 386-388; an error here leaves through the outer
\* handler's raise.
deploy_create ==
    /\ dpc = "create"
    /\ LET body == manifest(dkind, dargs)
       IN  \/ /\ NoDFault
              /\ ~Exists(<<dkind, body.name>>)
              /\ cluster' = api_create(dkind, body)
              /\ oplog' = Append(oplog, Op(dkind, "create", "ok"))
              /\ Proceed(dkind, cluster')
           \/ /\ NoDFault
              /\ Exists(<<dkind, body.name>>)
              /\ cluster' = cluster
              /\ oplog' = Append(oplog, Op(dkind, "create", "409"))
              /\ Raise(cluster)
           \/ /\ DFault
              /\ cluster' = cluster
              /\ oplog' = Append(oplog, Op(dkind, "create", "500"))
              /\ Raise(cluster)
    /\ UNCHANGED <<dargs, calls, prev>>
    /\ UNCHANGED <<pvars, ivars, nvars>>

\* Another client of the cluster deletes a resource.
foreign_delete ==
    /\ dfaults < MaxDFaults
    /\ dfaults' = dfaults + 1
    /\ quiet' = FALSE
    /\ \E id \in DOMAIN cluster : cluster' = api_delete(id)
    /\ UNCHANGED <<dpc, dkind, dargs, dres, oplog, calls, prev, snap>>
    /\ UNCHANGED <<pvars, ivars, nvars>>

----------------------------------------------------------------------------
(* find_dockerfile_path on its own *)

\* Member names an archive given to the inspector is made of.
MemberNames ==
    {<<"Dockerfile">>, <<".", "Dockerfile">>, <<"svc", "Dockerfile">>,
     <<"dockerfile">>, <<"svc", "DOCKERFILE">>, <<"a", "b", "Dockerfile">>,
     <<"", "Dockerfile">>, <<"svc">>}

Members ==
    {Member(n, f) : n \in MemberNames, f \in BOOLEAN}

ArchiveInputs ==
    UNION {[1..n -> Members] : n \in 0..MaxMembers}

\* No archive has been given to the inspector.
InspectIdle ==
    /\ tar_members = <<>>
    /\ context_path = "unset"

InspectInit ==
    /\ tar_members \in ArchiveInputs
    /\ context_path = "unset"

\* find_dockerfile_path on a readable archive, lines 92-117.
inspect ==
    /\ context_path = "unset"
    /\ context_path' = find_dockerfile_path(tar_members)
    /\ UNCHANGED <<tar_members, pvars, dvars, nvars>>

----------------------------------------------------------------------------
(* The resource name on its own *)

\* A sanitized field: lowercase alphanumerics with hyphens inside, as the
\* sequence of its characters.
Fields ==
    LET chars == {"a", "-"}
        all == UNION {[1..n -> chars] : n \in 1..MaxFieldLen}
    IN  {f \in all : f[1] # "-" /\ f[Len(f)] # "-"}

Descriptors ==
    [app : Fields, ver : Fields]

\* Nothing has been given to the naming.
NameIdle ==
    /\ descriptors = <<>>
    /\ resource_names = "unset"

NameInit ==
    /\ descriptors \in Descriptors \X Descriptors
    /\ resource_names = "unset"

\* Line 303 for each of the two descriptors.
derive_names ==
    /\ resource_names = "unset"
    /\ resource_names' = <<resource_name(descriptors[1].app, descriptors[1].ver),
                           resource_name(descriptors[2].app, descriptors[2].ver)>>
    /\ UNCHANGED <<descriptors, pvars, dvars, ivars>>

----------------------------------------------------------------------------
(* upload_to_gcs (src/manager/upload.py) *)

\* file_path arguments.
FilePaths ==
    {<<"app4", ".tar.gz">>, <<"dist", "/", "App5", ".tar.gz">>,
     <<"dist", "/", "notes", ".txt">>}

\* project_id arguments; None when the option is not given.
ProjectIds ==
    {None, <<"proj">>, <<"uploads">>}

\* int(time.time()) at the time of the call.
UploadTimes ==
    {1, 2}

\* f"v{int(time.time())}", line 36.
version_of(t) ==
    CASE t = 1 -> "v1"
      [] OTHER -> "v2"

\* Lines 34-39: the structured name with a project id, the default name
\* without one.
blob_name(file_path, project_id, t) ==
    IF project_id # None
    THEN project_id \o <<"/", version_of(t), "/">> \o basename(file_path)
    ELSE <<"unassigned", "/">> \o basename(file_path)

\* upload_to_gcs, lines 10-57: the object is stored under blob_name, or
\* nothing is stored when the credentials, the file or the bucket are
\* missing or the transfer fails.
upload_to_gcs ==
    /\ \E file_path \in FilePaths, project_id \in ProjectIds, t \in UploadTimes,
          stored \in BOOLEAN :
          bucket' = IF stored
                    THEN bucket \cup {blob_name(file_path, project_id, t)}
                    ELSE bucket
    /\ UNCHANGED <<ledger_file, processed_files, loaded, pc, todo, cur, ctx,
                   curJob, jobs, run, returned, skipped, faults, restarts>>
    /\ UNCHANGED <<dvars, ivars, nvars>>

Init ==
    PipelineInit /\ DeployInit /\ InspectIdle /\ NameIdle

NextUpload ==
    upload_to_gcs

SpecUpload ==
    Init /\ [][NextUpload]_vars

InitInspect ==
    PipelineInit /\ DeployInit /\ InspectInit /\ NameIdle

InitName ==
    PipelineInit /\ DeployInit /\ InspectIdle /\ NameInit

NextName ==
    derive_names

SpecName ==
    InitName /\ [][NextName]_vars

NextInspect ==
    inspect

SpecInspect ==
    InitInspect /\ [][NextInspect]_vars

Next ==
    \/ main
    \/ watch_list
    \/ watch_iter
    \/ watch_sleep
    \/ watch_wake
    \/ pnt_find
    \/ pnt_save
    \/ pnt_add
    \/ create_kaniko_job
    \/ watch_build_job
    \/ watch_build_sleep
    \/ pnt_deploy
    \/ pod_succeeds
    \/ pod_fails
    \/ job_appears
    \/ restart

Spec ==
    Init /\ [][Next]_vars

\* The steps of the controller process itself: the single thread of
\* watch_gcs_bucket and what it calls.
Controller ==
    \/ main
    \/ watch_list
    \/ watch_iter
    \/ watch_sleep
    \/ watch_wake
    \/ pnt_find
    \/ pnt_save
    \/ pnt_add
    \/ create_kaniko_job
    \/ watch_build_job
    \/ watch_build_sleep
    \/ pnt_deploy

\* The controller process keeps running: a sleep ends and a call returns.
SpecFair ==
    Init /\ [][Next]_vars /\ WF_vars(Controller)

NextDeploy ==
    \/ deploy_application
    \/ deploy_read
    \/ deploy_patch
    \/ deploy_create
    \/ foreign_delete

SpecDeploy ==
    Init /\ [][NextDeploy]_vars

----------------------------------------------------------------------------
(* Properties *)

\* The pipeline run for key k has not yet reached an outcome.
BeforeOutcome ==
    {"find", "create", "watch", "watch_sleep", "deploy"}

\* How the latest pipeline run for key k ended, "running" while it has not.
Outcome(k) ==
    LET r == run[k]
    IN  IF r.ctx = "unset" THEN "running"
        ELSE IF r.ctx = None \/ r.ctx = "" THEN "validation_failure"
        ELSE IF r.hit = "create" THEN "exception"
        ELSE IF r.job = 0 THEN "running"
        ELSE IF jobs[r.job].wait \in {"failed", "notfound", "apierror"}
        THEN "build_failure"
        ELSE IF jobs[r.job].wait = "succeeded" /\ r.reconciled THEN "success"
        ELSE IF jobs[r.job].wait = "succeeded" /\ r.deployCalled THEN "exception"
        ELSE "running"

\* C1: a key present in the ledger is never fed into the pipeline again,
\* in any poll cycle and after a restart: no step hands such a key to
\* process_new_tarball, creates a build job for it or calls the reconciler
\* for it.
C1_LedgerShortCircuits ==
    [][/\ (pc' = "find" /\ pc # "find") => cur' \notin LedgerKeys
       /\ Len(jobs') > Len(jobs) => jobs'[Len(jobs')].key \notin LedgerKeys
       /\ \A k \in Candidates :
            (run'[k].deployCalled /\ ~run[k].deployCalled) => k \notin LedgerKeys
      ]_vars

\* C1 witness: after a restart a key that the reloaded ledger holds was
\* listed and skipped.
C1_Witness ==
    /\ restarts >= 1
    /\ \E k \in skipped : k \in loaded /\ k \in LedgerKeys

C3_SuccessRecordedOnlyAfterReconcile ==
    \A k \in LedgerKeys :
        (run[k].job # 0 /\ jobs[run[k].job].wait = "succeeded") => run[k].reconciled

\* C4: for an archive in which find_dockerfile_path finds no build file no
\* build job is ever created, its run never reaches the build, and once
\* its pipeline has returned the key is in the ledger.
C4_NoDockerfileNoBuild ==
    \A k \in Candidates \cap bucket :
        find_dockerfile_path(archive_of(k)) = None =>
            /\ \A i \in 1..Len(jobs) : jobs[i].key # k
            /\ run[k].job = 0
            /\ cur = k => pc \notin {"create", "watch", "watch_sleep", "deploy"}
            /\ k \in returned => (k \in LedgerKeys /\ Outcome(k) = "validation_failure")

\* C4 witness: the pipeline of the archive without a Dockerfile has returned.
C4_Witness ==
    /\ K_bad \in returned
    /\ K_bad \in LedgerKeys
    /\ run[K_bad].ctx = None
    /\ run[K_bad].hit = "none"

\* C5: a run whose build job was read as failed never calls the
\* reconciler and, once returned, has its key in the ledger; the
\* reconciler is called only in a run whose job was read as succeeded, and
\* that job has a succeeded pod.
C5_FailedBuildNotDeployed ==
    \A k \in Candidates :
        LET r == run[k]
        IN  /\ (r.job # 0 /\ jobs[r.job].failed >= 1 /\ jobs[r.job].succeeded = 0) =>
                  ~r.deployCalled
            /\ (r.job # 0 /\ jobs[r.job].wait = "failed") =>
                  /\ ~r.deployCalled
                  /\ jobs[r.job].failed >= 1
                  /\ k \in returned => k \in LedgerKeys
            /\ r.deployCalled =>
                  /\ r.job # 0
                  /\ jobs[r.job].wait = "succeeded"
                  /\ jobs[r.job].succeeded >= 1
            /\ (cur = k /\ pc = "deploy") =>
                  (r.job # 0 /\ jobs[r.job].succeeded >= 1)

\* C5 witness: a build was read as failed, the pipeline returned and the
\* key is recorded.
C5_Witness ==
    \E k \in returned :
        /\ run[k].job # 0
        /\ jobs[run[k].job].wait = "failed"
        /\ k \in LedgerKeys
        /\ ~run[k].deployCalled

\* C6 (as claimed): no key is in the ledger whose pipeline run was hit by
\* an infrastructure error.
C6_InfraErrorNeverRecorded ==
    \A k \in LedgerKeys : run[k].hit = "none"

\* C6 (amended): a listing error writes nothing; an error of the download,
\* of the job creation or of the status read ends the run of that key, and
\* once process_new_tarball has returned the key is in the ledger and in
\* processed_files, so it is not retried.
C6_InfraErrorRecorded ==
    /\ [](\A k \in returned :
            run[k].hit \in {"download", "create", "status"} =>
                (k \in LedgerKeys /\ k \in processed_files))
    /\ [][(pc = "list" /\ pc' = "backoff") => ledger_file' = ledger_file]_vars

\* C6 witness: a run hit by a failed job creation has returned with its
\* key recorded.
C6_Witness ==
    \E k \in returned :
        /\ run[k].hit = "create"
        /\ k \in LedgerKeys
        /\ k \in processed_files

\* The reconciler call that has just ended repeated the call before it,
\* and nothing but the two calls touched the cluster meanwhile.
RepeatedCall ==
    /\ dpc \in {"done", "raised"}
    /\ calls >= 2
    /\ prev.args = dargs
    /\ prev.quiet
    /\ quiet

OtherError(o) ==
    /\ o.res \notin {"ok", "found"}
    /\ ~(o.op = "read" /\ o.res = "404")

\* C8 (as claimed): every create follows a read of that resource that
\* answered 404, every patch follows a read that found it, and after any
\* other error nothing more is done for the resource and the call raises.
C8_ReadThenCreateOrPatch ==
    \A i \in 1..Len(oplog) :
        LET o == oplog[i]
        IN  /\ o.op = "create" =>
                  (i > 1 /\ oplog[i - 1] = Op(o.kind, "read", "404"))
            /\ o.op = "patch" =>
                  (i > 1 /\ oplog[i - 1] = Op(o.kind, "read", "found"))
            /\ OtherError(o) => (i = Len(oplog) /\ dpc = "raised")

\* C8 (amended): a create follows a 404 of that resource's read or of the
\* patch issued after its read found it; a patch follows a read that
\* found the resource; after any other error nothing more is done for the
\* resource and the call raises.
C8_CreateAfterNotFound ==
    \A i \in 1..Len(oplog) :
        LET o == oplog[i]
        IN  /\ o.op = "create" =>
                  /\ i > 1
                  /\ oplog[i - 1].kind = o.kind
                  /\ oplog[i - 1].res = "404"
                  /\ oplog[i - 1].op \in {"read", "patch"}
            /\ o.op = "patch" =>
                  (i > 1 /\ oplog[i - 1] = Op(o.kind, "read", "found"))
            /\ (o.res \notin {"ok", "found", "404"}) =>
                  (i = Len(oplog) /\ dpc = "raised" /\ dres = "error")

\* C8 witness: a read found the deployment, its patch answered 404 and
\* the deployment was created; the call ended without error.
C8_Witness ==
    /\ dpc = "done"
    /\ \E i \in 1..(Len(oplog) - 2) :
          /\ oplog[i] = Op("deployment", "read", "found")
          /\ oplog[i + 1] = Op("deployment", "patch", "404")
          /\ oplog[i + 2] = Op("deployment", "create", "ok")

\* C9 (as claimed): a wait that ended on 'not found' had retried: it got
\* more than one 'not found' answer.
C9_NotFoundTolerated ==
    \A i \in 1..Len(jobs) : jobs[i].wait = "notfound" => jobs[i].nf > 1

\* C9 (amended): the first 'not found' answer ends the wait as failed:
\* a job whose status read answered 'not found' has got exactly one such
\* answer and its wait is over.
C9_FirstNotFoundFails ==
    \A i \in 1..Len(jobs) :
        /\ jobs[i].nf >= 1 => (jobs[i].wait = "notfound" /\ jobs[i].nf = 1)
        /\ jobs[i].wait = "notfound" => ~(curJob = i /\ pc \in {"watch", "watch_sleep"})

\* C9 witness: a job whose creation the read API had not caught up with
\* was read once, and the archive was recorded as a failed build.
C9_Witness ==
    \E i \in 1..Len(jobs) :
        /\ jobs[i].wait = "notfound"
        /\ jobs[i].nf = 1
        /\ jobs[i].key \in LedgerKeys

\* C10 (as claimed): at most one build job is non-terminal, here for a
\* controller that was never restarted.
C10_OneNonTerminalJob ==
    restarts = 0 => Cardinality(NonTerminalJobs) <= 1

\* The job watch_build_job is waiting for.
Awaited(i) ==
    curJob = i /\ pc \in {"watch", "watch_sleep"}

\* C10 (amended): the next pipeline starts only after watch_build_job has
\* returned: a job with a pending wait is the one being awaited, and a
\* job that is still non-terminal is either awaited, or its wait ended on
\* an API error or a 'not found' of the status read, or on a failed pod
\* that status.failed counts, or its controller was restarted.
C10_OneAwaitedJob ==
    /\ \A i \in 1..Len(jobs) : jobs[i].wait = "pending" => Awaited(i)
    /\ \A i \in NonTerminalJobs :
          \/ Awaited(i)
          \/ jobs[i].wait \in {"apierror", "notfound", "abandoned"}
          \/ jobs[i].wait = "failed" /\ jobs[i].failed >= 1
    /\ pc \in {"find", "create"} => \A i \in 1..Len(jobs) : jobs[i].wait # "pending"

\* C10 witness: the wait for the first job ended on its first failed pod,
\* and the job of the next archive is awaited while the first can still
\* run its retry.
C10_Witness ==
    \E i, j \in NonTerminalJobs :
        /\ i # j
        /\ jobs[i].wait = "failed"
        /\ Awaited(j)
        /\ jobs[i].key # jobs[j].key

\* C11: a listing error takes the loop to the sleep of the handler and
\* writes neither the ledger file nor the processed set; that sleep is
\* longer than the sleep of a normal poll cycle; from it the loop can only
\* go on to the next listing, and it does.
C11_ListingErrorBacksOff ==
    /\ [][(pc = "list" /\ faults' > faults) =>
             /\ pc' = "backoff"
             /\ ledger_file' = ledger_file
             /\ processed_files' = processed_files
         ]_vars
    /\ [](pc = "backoff" => sleep_seconds(pc) > sleep_seconds("sleep"))
    /\ [][pc = "backoff" => pc' \in {"backoff", "list"}]_vars
    /\ (pc = "backoff") ~> (pc = "list")

\* C11 witness: after a poll cycle that processed archives, a listing
\* failed and the loop is in the handler's sleep with the ledger as the
\* pipelines left it.
C11_Witness ==
    /\ pc = "backoff"
    /\ faults >= 1
    /\ returned # {}
    /\ \A k \in Candidates : run[k].ctx # "unset" => k \in returned
    /\ LedgerKeys = returned

\* The positions inside `while True` of watch_gcs_bucket and the calls
\* made from it.
LoopPositions ==
    {"list", "iter", "sleep", "backoff", "find", "create", "watch",
     "watch_sleep", "deploy", "save_validation", "save_success",
     "save_failure", "save_exception", "add"}

\* C12 (as claimed): the process ends only on a configuration error of
\* its start: a missing setting or clients that cannot be configured.
C12_OnlyConfigErrorTerminates ==
    pc \in Terminated => pc \in {"exit_config", "exit_clients"}

\* C12 (amended): the process ends only during its start, before the
\* watch loop; once in the loop every step of the process, whatever error
\* it meets, leaves it in the loop.
C12_LoopNeverTerminates ==
    /\ [](pc \in {"start"} \cup LoopPositions \cup Terminated)
    /\ [][(pc \in LoopPositions /\ restarts' = restarts) =>
             pc' \in LoopPositions]_vars
    /\ [][(pc' \in Terminated /\ pc \notin Terminated) => pc = "start"]_vars

\* C12 witness: the loop has gone on to its sleep after a poll cycle in
\* which an infrastructure error and the reconciler call's exception
\* were caught.
C12_Witness ==
    /\ pc = "sleep"
    /\ restarts = 0
    /\ \E k \in returned : run[k].hit # "none"
    /\ \E k \in returned : run[k].deployCalled /\ ~run[k].reconciled

\* A file named as the build file, given relative to the archive root and
\* lying in it.
AtRoot(m) ==
    /\ m.isfile
    /\ Head(m.name) # ""
    /\ normpath_split(m.name) = <<"Dockerfile">>

\* A file named as the build file, one directory below the archive root.
OneLevelDown(m) ==
    /\ m.isfile
    /\ Head(m.name) # ""
    /\ Len(normpath_split(m.name)) = 2
    /\ normpath_split(m.name)[2] = "Dockerfile"

\* C13: for an archive with a build file at its root and another one
\* level down, in whatever order the members come, the inspector returns
\* ".".
C13_RootTakesPrecedence ==
    (/\ context_path # "unset"
     /\ \E i \in 1..Len(tar_members) : AtRoot(tar_members[i])
     /\ \E i \in 1..Len(tar_members) : OneLevelDown(tar_members[i]))
        => context_path = "."

\* C13 witness: the archive lists the build file of the subdirectory
\* before the one of the root, and the inspector returned ".".
C13_Witness ==
    /\ context_path = "."
    /\ \E i, j \in 1..Len(tar_members) :
          /\ i < j
          /\ OneLevelDown(tar_members[i])
          /\ AtRoot(tar_members[j])

\* A file at the root or one level down whose base name is the build
\* file's name in some casing.
NamedLikeBuildFile(m) ==
    LET parts == normpath_split(m.name)
    IN  /\ m.isfile
        /\ Head(m.name) # ""
        /\ Len(parts) \in {1, 2}
        /\ lower(parts[Len(parts)]) = "dockerfile"

\* The directory of a member at the root or one level down.
DirOf(m) ==
    LET parts == normpath_split(m.name)
    IN  IF Len(parts) = 1 THEN "." ELSE parts[1]

\* C14 (as claimed): when exactly one member is a build file in some
\* casing, at the root or one level down, the inspector returns that
\* member's directory.
C14_CaseInsensitiveMatch ==
    \A i \in 1..Len(tar_members) :
        (/\ context_path # "unset"
         /\ NamedLikeBuildFile(tar_members[i])
         /\ \A j \in 1..Len(tar_members) :
               j # i => ~NamedLikeBuildFile(tar_members[j]))
            => context_path = DirOf(tar_members[i])

\* C14 (amended): the match is on the exact name 'Dockerfile': "." is
\* returned only for a file member named 'Dockerfile' or './Dockerfile',
\* a directory only for a file member that is 'Dockerfile' in that
\* directory, and an archive without a file member whose base name is
\* exactly 'Dockerfile' yields 'not found'.
C14_ExactNameMatch ==
    context_path # "unset" =>
        /\ context_path = "." =>
              \E i \in 1..Len(tar_members) :
                  /\ tar_members[i].isfile
                  /\ tar_members[i].name \in {<<"Dockerfile">>, <<".", "Dockerfile">>}
        /\ context_path \notin {".", None} =>
              \E i \in 1..Len(tar_members) :
                  /\ tar_members[i].isfile
                  /\ normpath_split(tar_members[i].name) = <<context_path, "Dockerfile">>
        /\ (\A i \in 1..Len(tar_members) :
                tar_members[i].isfile =>
                    LET parts == normpath_split(tar_members[i].name)
                    IN  parts[Len(parts)] # "Dockerfile")
              => context_path = None

\* C14 witness: the archive's only build file is spelled in another
\* casing and the inspector returned 'not found'.
C14_Witness ==
    /\ context_path = None
    /\ \E i \in 1..Len(tar_members) :
          /\ NamedLikeBuildFile(tar_members[i])
          /\ \A j \in 1..Len(tar_members) :
                j # i => ~tar_members[j].isfile

\* The number of "/"-separated segments of a storage name.
Segments(name) ==
    Cardinality({i \in 1..Len(name) : name[i] = "/"}) + 1

\* C15 (as claimed): for a storage name of fewer than 3 path segments no
\* build job is submitted and the reconciler is not called.
C15_ShortNameSkipped ==
    \A k \in Candidates :
        Segments(k) < 3 =>
            /\ run[k].job = 0
            /\ ~run[k].deployCalled
            /\ \A i \in 1..Len(jobs) : jobs[i].key # k

\* C15 (amended): the number of segments plays no part.  The loop hands
\* the next listed name to the pipeline exactly when it ends in '.tar.gz'
\* and is not in the processed set; a pipeline that has returned for an
\* archive with a build file, without an infrastructure error, has
\* submitted a build job, labelled with the lower-cased base name.
C15_AnyNameProcessed ==
    /\ [][(pc = "iter" /\ todo # <<>> /\ todo' = Tail(todo)
                /\ restarts' = restarts) =>
             LET blob == Head(todo)
             IN  (endswith_tar_gz(blob) /\ blob \notin processed_files)
                     <=> (pc' = "find" /\ cur' = blob)
         ]_vars
    /\ [](\A k \in returned :
            (~falsy(find_dockerfile_path(archive_of(k))) /\ run[k].hit = "none") =>
                /\ run[k].job # 0
                /\ jobs[run[k].job].key = k
                /\ jobs[run[k].job].app = app_name_of(k))

\* C15 witness: the pipeline has returned for 'uploads/app1.tar.gz', a
\* name of two segments, after submitting its build job.
C15_Witness ==
    /\ K_app1 \in returned
    /\ Segments(K_app1) = 2
    /\ run[K_app1].job # 0
    /\ jobs[run[K_app1].job].app = <<"app1">>

\* C16 (as claimed): equal descriptors get equal resource names and
\* descriptors that differ in a field get different resource names.
C16_NameInjective ==
    resource_names # "unset" =>
        (descriptors[1] = descriptors[2] <=> resource_names[1] = resource_names[2])

\* The place of a resource in the order workload, endpoint, route.
Rank(kind) ==
    CASE kind = "deployment" -> 1
      [] kind = "service" -> 2
      [] OTHER -> 3

\* The step of `kind` has finished without error among the first n calls
\* of the log.
StepDone(kind, n) ==
    \E i \in 1..n :
        /\ oplog[i].kind = kind
        /\ \/ oplog[i].op \in {"patch", "create"} /\ oplog[i].res = "ok"
           \/ kind = "service" /\ oplog[i].op = "read" /\ oplog[i].res = "found"

\* C17: within one reconciler call the API calls come in the order
\* deployment, service, ingress; a call for a resource comes only after
\* the step of every earlier resource has finished without error; and
\* when the call raised, the failed API call is the last one issued.
C17_FixedOrder ==
    /\ \A i, j \in 1..Len(oplog) :
          i < j => Rank(oplog[i].kind) <= Rank(oplog[j].kind)
    /\ \A j \in 1..Len(oplog) :
          /\ oplog[j].kind # "deployment" => StepDone("deployment", j - 1)
          /\ oplog[j].kind = "ingress" => StepDone("service", j - 1)
    /\ dpc = "raised" =>
          /\ oplog # <<>>
          /\ oplog[Len(oplog)].res \notin {"ok", "found"}
          /\ \A i \in 1..Len(oplog) :
                Rank(oplog[i].kind) <= Rank(oplog[Len(oplog)].kind)
    /\ (dpc \in {"read", "patch", "create"} /\ oplog # <<>>) =>
          Rank(oplog[Len(oplog)].kind) <= Rank(dkind)

\* C17 witness: a call with a domain raised in the service step, after
\* the deployment step, and issued nothing for the ingress.
C17_Witness ==
    /\ dpc = "raised"
    /\ dargs.domain # ""
    /\ oplog[Len(oplog)].kind = "service"
    /\ StepDone("deployment", Len(oplog))
    /\ \A i \in 1..Len(oplog) : oplog[i].kind # "ingress"

\* C18: no patch is ever issued for the service; a create of the service
\* directly follows a read of it that answered 'not found'; after a read
\* that found it nothing more is issued for it in that call; and no step
\* changes a stored service.
C18_ServiceLeftAlone ==
    /\ [](\A i \in 1..Len(oplog) :
            oplog[i].kind = "service" =>
                /\ oplog[i].op # "patch"
                /\ oplog[i].op = "create" =>
                      (i > 1 /\ oplog[i - 1] = Op("service", "read", "404"))
                /\ (oplog[i].op = "read" /\ oplog[i].res = "found") =>
                      \A j \in (i + 1)..Len(oplog) : oplog[j].kind # "service")
    /\ [][\A id \in DOMAIN cluster :
             (id[1] = "service" /\ id \in DOMAIN cluster') =>
                 cluster'[id] = cluster[id]
         ]_vars

\* C18 witness: a call has ended that found the service of an earlier
\* call, issued nothing else for it, and patched the deployment to
\* another image.
C18_Witness ==
    /\ dpc = "done"
    /\ calls >= 2
    /\ \E i \in 1..Len(oplog) : oplog[i] = Op("service", "read", "found")
    /\ Cardinality({i \in 1..Len(oplog) : oplog[i].kind = "service"}) = 1
    /\ \E i \in 1..Len(oplog) : oplog[i] = Op("deployment", "patch", "ok")
    /\ prev.args.app = dargs.app /\ prev.args.ver = dargs.ver
    /\ prev.args.img # dargs.img

\* C19: a turn of the wait returns Succeeded only when its status read
\* answered with a succeeded job; it returns Failed when the read raised
\* an API error ('not found' included) or answered with a job that has
\* failed and not succeeded; in every other case it sleeps and reads
\* again.  A wait that ended as succeeded or failed has the status to
\* show for it.
C19_WaitVerdicts ==
    /\ [][(pc = "watch" /\ pc' # "watch" /\ restarts' = restarts) =>
             LET j == jobs[curJob]
                 raised == faults' > faults \/ j.vis # "visible"
             IN  /\ pc' \in {"deploy", "save_failure", "watch_sleep"}
                 /\ pc' = "deploy" <=> (~raised /\ j.succeeded >= 1)
                 /\ pc' = "save_failure" <=>
                       (raised \/ (j.succeeded = 0 /\ j.failed >= 1))
                 /\ pc' = "watch_sleep" <=>
                       (~raised /\ j.succeeded = 0 /\ j.failed = 0)
         ]_vars
    /\ [][(pc = "watch_sleep" /\ restarts' = restarts) =>
             pc' \in {"watch_sleep", "watch"}]_vars
    /\ [](\A i \in 1..Len(jobs) :
            /\ jobs[i].wait = "succeeded" => jobs[i].succeeded >= 1
            /\ jobs[i].wait = "failed" => jobs[i].failed >= 1
            /\ (curJob = i /\ pc = "watch_sleep") =>
                  (jobs[i].wait = "pending" /\ jobs[i].vis = "visible"))

\* C19 witness: one wait ended as failed on an API error of the status
\* read, and a later wait ended as succeeded for a job whose first pod had
\* failed.
C19_Witness ==
    /\ pc = "deploy"
    /\ jobs[curJob].wait = "succeeded"
    /\ jobs[curJob].failed >= 1
    /\ \E i \in 1..Len(jobs) : jobs[i].wait = "apierror"

\* C20: the step by which process_new_tarball returns normally leaves the
\* key in the ledger file and in the processed set, and every key whose
\* pipeline has returned is in both, whatever the outcome of its run.
C20_ReturnLeavesKeyRecorded ==
    /\ [][(pc = "add" /\ pc' # "add" /\ restarts' = restarts) =>
             /\ cur \in Range(ledger_file')
             /\ cur \in processed_files'
             /\ returned' = returned \cup {cur}
         ]_vars
    /\ [](\A k \in returned :
            /\ \E i \in 1..Len(ledger_file) : ledger_file[i] = k
            /\ k \in processed_files)

\* C20 witness: pipelines have returned after a validation failure, after
\* a failed build and after the exception of the reconciler call, and the
\* three keys are in the file and in the set.
C20_Witness ==
    /\ \E k \in returned : Outcome(k) = "validation_failure"
    /\ \E k \in returned : Outcome(k) = "build_failure"
    /\ \E k \in returned : Outcome(k) = "exception"
    /\ returned \subseteq LedgerKeys
    /\ returned \subseteq processed_files
    /\ Cardinality(returned) = 3

\* The wait is on a job whose status shows neither a succeeded nor a
\* failed pod.
Stuck ==
    /\ pc \in {"watch", "watch_sleep"}
    /\ jobs[curJob].vis = "visible"
    /\ jobs[curJob].succeeded = 0
    /\ jobs[curJob].failed = 0

\* The stored objects the watcher has to deal with.
Pending ==
    (Candidates \cap bucket) \ LedgerKeys

\* C21: if no awaited job stays for ever without a succeeded or failed
\* pod, then from any point of the watch loop on every stored object
\* under the prefix whose name ends in '.tar.gz' gets into the ledger;
\* and as long as the awaited job shows neither, a step that meets no
\* API error leaves the controller in the wait: no other archive is
\* taken up, no job is submitted and nothing is written to the ledger.
C21_RecordedUnlessBuildStuck ==
    /\ ([]<>~Stuck) => [](pc \in LoopPositions => <>(Pending = {}))
    /\ [][(Stuck /\ faults' = faults /\ restarts' = restarts) =>
             /\ pc' \in {"watch", "watch_sleep"}
             /\ cur' = cur
             /\ curJob' = curJob
             /\ Len(jobs') = Len(jobs)
             /\ ledger_file' = ledger_file
             /\ Pending' = Pending
         ]_vars

\* C21 witness: every stored candidate is in the ledger after a poll
\* cycle in which a job was awaited through at least one failed pod.
C21_Witness ==
    /\ pc = "sleep"
    /\ Pending = {}
    /\ Cardinality(Candidates \cap bucket) >= 3
    /\ \E i \in 1..Len(jobs) : jobs[i].wait = "succeeded" /\ jobs[i].failed >= 1

\* C22 (as claimed): every '.tar.gz' object the uploader has stored has
\* a name under the prefix the watcher lists.
C22_UploadInListingScope ==
    \A n \in bucket \ Keys :
        endswith_tar_gz(n) => startswith(n, ListPrefix)

====
